---------------------------- MODULE Spec2Model ----------------------------
(***************************************************************************)
(* Model of src/Backend/app.py: three read-only HTTP handlers              *)
(* (generar_url, obtener_filtros, buscar_sentencias) over a PostgreSQL     *)
(* store (sentencias_y_autos, jueces, sentencias_jueces) and a GCS bucket. *)
(*                                                                         *)
(* Text values are sequences of letters (naturals >= 1) compared           *)
(* lexicographically, "" is << >>.  Python None and SQL NULL are the       *)
(* value None, which is no text.  Decision identifiers (ndetalle) are      *)
(* naturals in their natural order; ndetalle is the key of                 *)
(* sentencias_y_autos (spec.md section 3), so the table is a function.     *)
(***************************************************************************)
EXTENDS Integers, Sequences, FiniteSets, TLC

VARIABLES
    sentencias_y_autos,   \* ndetalle -> row of the decision table
    jueces,               \* codigo -> nombre_juez
    sentencias_jueces,    \* set of <<ndetalle, codigo>>
    conns,                \* identifiers of the PostgreSQL connections now open
    req,                  \* request slot -> the handler execution running in it
    cliente               \* request slot -> the paging client's accumulated pages

vars == <<sentencias_y_autos, jueces, sentencias_jueces, conns, req, cliente>>

store == <<sentencias_y_autos, jueces, sentencias_jueces>>

-----------------------------------------------------------------------------
(* Bounds of the model *)

MaxRows == 2      \* decision rows in the store
MaxLimit == 2     \* largest limit / offset a caller supplies
NReq == 2         \* request slots served concurrently

-----------------------------------------------------------------------------
(* Values *)

None == <<0>>
A == <<1>>
B == <<2>>
Vacio == << >>

Min(x, y) == IF x <= y THEN x ELSE y

\* Python's and PostgreSQL's ordering of text: lexicographic.
RECURSIVE TextLess(_, _)
TextLess(s, t) ==
    IF Len(t) = 0 THEN FALSE
    ELSE IF Len(s) = 0 THEN TRUE
    ELSE IF Head(s) # Head(t) THEN Head(s) < Head(t)
    ELSE TextLess(Tail(s), Tail(t))

\* Python truthiness of an Optional[str]: None and "" are falsy.
Truthy(v) == v # None /\ Len(v) > 0

\* The blob name stored for decision n.
Ruta(n) == <<3, n>>


-----------------------------------------------------------------------------
(* PostgreSQL: the FROM / JOIN / WHERE shapes the handlers send *)

FROM_BASE == "sentencias_y_autos s"
JOIN_INNER == " JOIN sentencias_jueces sj ON sj.ndetalle = s.ndetalle JOIN jueces j ON j.codigo = sj.codigo"
JOIN_LEFT == " LEFT JOIN sentencias_jueces sj ON sj.ndetalle = s.ndetalle LEFT JOIN jueces j ON j.codigo = sj.codigo"

\* One row of the join chain: the decision's columns, the association's judge
\* code (0 for NULL) and the judge's name.
JoinedRow(n, c, nombre) ==
    [ndetalle |-> n,
     codigo_organo |-> sentencias_y_autos[n].codigo_organo,
     codigo_recurso |-> sentencias_y_autos[n].codigo_recurso,
     especialidad_expe |-> sentencias_y_autos[n].especialidad_expe,
     organo_detalle |-> sentencias_y_autos[n].organo_detalle,
     url |-> sentencias_y_autos[n].url,
     sj_codigo |-> c,
     nombre_juez |-> nombre]

\* s JOIN sj ON sj.ndetalle = s.ndetalle JOIN j ON j.codigo = sj.codigo
InnerJoin ==
    {JoinedRow(p[1], p[2], jueces[p[2]]) :
        p \in {q \in sentencias_jueces :
                  q[1] \in DOMAIN sentencias_y_autos /\ q[2] \in DOMAIN jueces}}

\* s LEFT JOIN sj ON ... LEFT JOIN j ON ...: a decision with no association, or
\* an association whose judge is missing, keeps a row padded with NULLs.
LeftJoin ==
    UNION {LET cs == {q[2] : q \in {x \in sentencias_jueces : x[1] = n}}
           IN  IF cs = {} THEN {JoinedRow(n, 0, None)}
               ELSE {JoinedRow(n, c, IF c \in DOMAIN jueces THEN jueces[c] ELSE None) :
                        c \in cs}
           : n \in DOMAIN sentencias_y_autos}

FromRows(from) ==
    IF from = <<FROM_BASE, JOIN_INNER>> THEN InnerJoin ELSE LeftJoin

\* The column an equality condition of the WHERE clause compares.
CondColumn(cond) ==
    CASE cond = "s.codigo_organo = %s" -> "codigo_organo"
      [] cond = "s.codigo_recurso = %s" -> "codigo_recurso"
      [] cond = "s.especialidad_expe = %s" -> "especialidad_expe"
      [] cond = "s.organo_detalle = %s" -> "organo_detalle"
      [] cond = "j.nombre_juez = %s" -> "nombre_juez"

\* The conditions of "WHERE c1 AND c2 ...", in order; none for the empty text.
WhereConds(where) ==
    [i \in 1..(Len(where) \div 2) |-> where[2 * i]]

\* SQL equality: NULL equals nothing; the i-th placeholder takes the i-th
\* bound parameter.
WhereHolds(row, where, bound) ==
    \A i \in 1..Len(WhereConds(where)) :
        /\ row[CondColumn(WhereConds(where)[i])] # None
        /\ row[CondColumn(WhereConds(where)[i])] = bound[i]

\* %s placeholders of a query: one per condition, two for LIMIT %s OFFSET %s.
Placeholders(query) ==
    Len(WhereConds(query.where)) + (IF query.paginated THEN 2 ELSE 0)

MatchingRows(query, bound) ==
    {row \in FromRows(query.from) : WhereHolds(row, query.where, bound)}

\* SELECT COUNT(DISTINCT s.ndetalle) FROM ... WHERE ...
ExecuteCount(query, bound) ==
    Cardinality({row.ndetalle : row \in MatchingRows(query, bound)})

\* The pairs of S as a sequence in ascending order of the first component.
RECURSIVE OrderBy(_)
OrderBy(S) ==
    IF S = {} THEN << >>
    ELSE LET m == CHOOSE x \in S : \A y \in S : x[1] <= y[1]
         IN  <<m>> \o OrderBy(S \ {m})

\* SELECT DISTINCT s.ndetalle, s.url FROM ... WHERE ... ORDER BY s.ndetalle
\* LIMIT %s OFFSET %s, the last two bound parameters being limit and offset.
ExecuteSelect(query, bound) ==
    LET rows == OrderBy({<<row.ndetalle, row.url>> : row \in MatchingRows(query, bound)})
        lim == bound[Len(bound) - 1]
        off == bound[Len(bound)]
    IN  SubSeq(rows, off + 1, Min(off + lim, Len(rows)))

-----------------------------------------------------------------------------
(* buscar_sentencias: the dynamic construction of the query (lines 124-178) *)

AppendIf(c, s, x) == IF c THEN Append(s, x) ELSE s

filtros_where(a) ==
    LET f1 == AppendIf(Truthy(a.codigo_organo), << >>, "s.codigo_organo = %s")
        f2 == AppendIf(Truthy(a.codigo_recurso), f1, "s.codigo_recurso = %s")
        f3 == AppendIf(Truthy(a.especialidad_expe), f2, "s.especialidad_expe = %s")
        f4 == AppendIf(Truthy(a.organo_detalle), f3, "s.organo_detalle = %s")
    IN  AppendIf(Truthy(a.nombre_juez), f4, "j.nombre_juez = %s")

\* params with the judge name collected under the test of line 145
\* (is not None) instead of the truth test of line 140.
params_desalineado(a) ==
    LET p1 == AppendIf(Truthy(a.codigo_organo), << >>, a.codigo_organo)
        p2 == AppendIf(Truthy(a.codigo_recurso), p1, a.codigo_recurso)
        p3 == AppendIf(Truthy(a.especialidad_expe), p2, a.especialidad_expe)
        p4 == AppendIf(Truthy(a.organo_detalle), p3, a.organo_detalle)
    IN  AppendIf(a.nombre_juez # None, p4, a.nombre_juez)

params(a) ==
    LET p1 == AppendIf(Truthy(a.codigo_organo), << >>, a.codigo_organo)
        p2 == AppendIf(Truthy(a.codigo_recurso), p1, a.codigo_recurso)
        p3 == AppendIf(Truthy(a.especialidad_expe), p2, a.especialidad_expe)
        p4 == AppendIf(Truthy(a.organo_detalle), p3, a.organo_detalle)
    IN  AppendIf(Truthy(a.nombre_juez), p4, a.nombre_juez)

necesita_join_jueces(a) == a.nombre_juez # None

from_clause(a) ==
    IF necesita_join_jueces(a) THEN <<FROM_BASE, JOIN_INNER>>
    ELSE <<FROM_BASE, JOIN_LEFT>>

\* " AND ".join(fw) as a sequence of pieces.
RECURSIVE JoinAnd(_)
JoinAnd(fw) ==
    IF Len(fw) = 0 THEN << >>
    ELSE IF Len(fw) = 1 THEN fw
    ELSE <<Head(fw), " AND ">> \o JoinAnd(Tail(fw))

where_sql(fw) == IF Len(fw) > 0 THEN <<"WHERE ">> \o JoinAnd(fw) ELSE << >>

count_query(from, where) ==
    [select |-> "COUNT(DISTINCT s.ndetalle)", from |-> from, where |-> where,
     paginated |-> FALSE]

select_query(from, where) ==
    [select |-> "DISTINCT s.ndetalle, s.url", from |-> from, where |-> where,
     paginated |-> TRUE]

params_with_pagination(ps, limit, offset) == ps \o <<limit, offset>>

\* {row[0]: row[1] for row in filas}: an insertion-ordered dict, as a sequence
\* of <<key, value>>; a repeated key keeps its place and takes the later value.
RECURSIVE DictOf(_)
DictOf(filas) ==
    IF Len(filas) = 0 THEN << >>
    ELSE LET init == DictOf(SubSeq(filas, 1, Len(filas) - 1))
             last == filas[Len(filas)]
         IN  IF \E i \in 1..Len(init) : init[i][1] = last[1]
             THEN [i \in 1..Len(init) |->
                      IF init[i][1] = last[1] THEN last ELSE init[i]]
             ELSE Append(init, last)

Keys(d) == [i \in 1..Len(d) |-> d[i][1]]

-----------------------------------------------------------------------------
(* obtener_filtros: the five DISTINCT queries and sorted() (lines 70-101) *)

\* SELECT DISTINCT col FROM sentencias_y_autos WHERE col IS NOT NULL
DistinctNotNull(col) ==
    {sentencias_y_autos[n][col] : n \in DOMAIN sentencias_y_autos} \ {None}

\* SELECT DISTINCT j.nombre_juez FROM jueces j JOIN sentencias_jueces sj ...
\* JOIN sentencias_y_autos s ... WHERE j.nombre_juez IS NOT NULL
DistinctNombreJuez ==
    {jueces[q[2]] :
        q \in {x \in sentencias_jueces :
                  x[2] \in DOMAIN jueces /\ x[1] \in DOMAIN sentencias_y_autos}} \ {None}

\* cur.fetchall() of a query with no ORDER BY: the rows in any order.
FetchAll(S) ==
    {f \in [1..Cardinality(S) -> S] : \A x \in S : \E i \in 1..Cardinality(S) : f[i] = x}

RECURSIVE InsertSorted(_, _)
InsertSorted(x, s) ==
    IF Len(s) = 0 THEN <<x>>
    ELSE IF TextLess(Head(s), x) THEN <<Head(s)>> \o InsertSorted(x, Tail(s))
    ELSE <<x>> \o s

\* The list returned as fetched, sorted() forgotten.
sorted_olvidado(l) == l

\* Python's sorted() on a list of str.
RECURSIVE sorted(_)
sorted(l) == IF Len(l) = 0 THEN << >> ELSE InsertSorted(Head(l), sorted(Tail(l)))

-----------------------------------------------------------------------------
(* generar_url: the lookup, the 404 test and the signed URL (lines 36-53) *)

EXPIRATION_MINUTES == 15

\* cur.fetchone() of SELECT url FROM sentencias_y_autos WHERE ndetalle = %s:
\* the row <<url>>, or << >> for Python's None (both are falsy, and no row
\* has zero columns).
FetchUrl(nd) ==
    IF nd \in DOMAIN sentencias_y_autos THEN <<sentencias_y_autos[nd].url>> ELSE << >>

\* The 404 test written as a truth test: not result or not result[0].
not_found_falsy(result) == Len(result) = 0 \/ ~Truthy(result[1])

\* not result or result[0] is None
not_found(result) == Len(result) = 0 \/ result[1] = None

\* bucket.blob(blob_name).generate_signed_url(version, expiration, method)
generate_signed_url(blob_name) ==
    [bucket |-> "automatizacion-casillero", blob |-> blob_name, version |-> "v4",
     expiration |-> EXPIRATION_MINUTES, method |-> "GET"]

-----------------------------------------------------------------------------
(* Requests *)

Requests == 1..NReq

NoArgs ==
    [ndetalle |-> 0, codigo_organo |-> None, codigo_recurso |-> None,
     especialidad_expe |-> None, organo_detalle |-> None, nombre_juez |-> None,
     limit |-> 0, offset |-> 0]

NoResp == [status |-> 0, body |-> [nada |-> TRUE]]

ServerError == [status |-> 500, body |-> [detail |-> "Internal Server Error"]]

Idle ==
    [op |-> "none", pc |-> "idle", args |-> NoArgs, conn |-> 0, closed |-> FALSE,
     fallo |-> "", filtros_where |-> << >>, params |-> << >>, from_clause |-> << >>,
     where_sql |-> << >>, ejecutadas |-> << >>, total_count |-> 0, resp |-> NoResp]

ClienteIdle == [paginando |-> FALSE, merged |-> << >>]

\* One module-level connection handed to every request.
get_db_connection_global == CHOOSE c \in Requests : \A d \in Requests : c <= d

\* psycopg2.connect(...): a connection of its own for each call.
get_db_connection ==
    CHOOSE c \in Requests : c \notin conns /\ \A d \in Requests \ conns : c <= d

\* The handler's first statements: conn = get_db_connection(); cur = conn.cursor().
\* connect() raises when the server is unreachable.
Conectar(r, nueva, cl) ==
    /\ \/ /\ conns' = conns \cup {get_db_connection}
          /\ req' = [req EXCEPT ![r] = [nueva EXCEPT !.conn = get_db_connection]]
       \/ /\ req' = [req EXCEPT ![r] =
                       [nueva EXCEPT !.pc = "done", !.fallo = "conexion",
                                     !.resp = ServerError]]
          /\ UNCHANGED conns
    /\ cliente' = [cliente EXCEPT ![r] = cl]
    /\ UNCHANGED store

\* cur.execute raises: the store fails, or the connection was closed under the
\* handler.  The exception leaves the handler at once: conn.close() is not run.
Raises(r, causa) ==
    /\ req' = [req EXCEPT ![r].pc = "done", ![r].fallo = causa, ![r].resp = ServerError]
    /\ UNCHANGED <<store, conns, cliente>>

ConnUsable(r) == req[r].conn \in conns

\* The handler has returned or raised and the response is sent: the request is
\* over and its slot serves the next one.  A connection the handler left open
\* dies with the handler's frame (psycopg2 closes a connection object that is
\* reclaimed); the handler itself never closed it.
responder(r) ==
    /\ req[r].pc = "done"
    /\ req' = [req EXCEPT ![r] = Idle]
    /\ cliente' = [cliente EXCEPT ![r] = ClienteIdle]
    /\ conns' = IF req[r].closed THEN conns ELSE conns \ {req[r].conn}
    /\ UNCHANGED store

-----------------------------------------------------------------------------
(* GET /descargar/{ndetalle} *)

\* Line 34: the request arrives and opens its connection.
generar_url_conectar(r, nds) ==
    /\ req[r].pc = "idle"
    /\ \E nd \in nds :
          Conectar(r, [Idle EXCEPT !.op = "generar_url", !.pc = "consulta",
                                   !.args = [NoArgs EXCEPT !.ndetalle = nd]],
                   ClienteIdle)

\* Lines 36-53: the lookup, cur.close(), conn.close(), the 404 test, the signing.
generar_url_consulta(r) ==
    /\ req[r].op = "generar_url"
    /\ req[r].pc = "consulta"
    /\ \E falla \in BOOLEAN, falla_firma \in BOOLEAN :
         IF falla \/ ~ConnUsable(r)
         THEN Raises(r, IF falla THEN "consulta" ELSE "")
         ELSE LET result == FetchUrl(req[r].args.ndetalle)
                  firmada == ~not_found(result) /\ ~falla_firma
              IN  /\ conns' = conns \ {req[r].conn}
                  /\ req' = [req EXCEPT
                        ![r].pc = "done",
                        ![r].closed = TRUE,
                        ![r].fallo = IF ~not_found(result) /\ falla_firma
                                     THEN "firma" ELSE "",
                        ![r].resp =
                            IF not_found(result)
                            THEN [status |-> 404,
                                  body |-> [detail |-> "Archivo no encontrado"]]
                            ELSE IF firmada
                            THEN [status |-> 200,
                                  body |-> [url |-> generate_signed_url(result[1])]]
                            ELSE ServerError]
                  /\ UNCHANGED <<store, cliente>>

-----------------------------------------------------------------------------
(* GET /filters *)

\* Lines 66-67.
obtener_filtros_conectar(r) ==
    /\ req[r].pc = "idle"
    /\ Conectar(r, [Idle EXCEPT !.op = "obtener_filtros", !.pc = "consulta"], ClienteIdle)

\* Lines 70-101: five queries, cur.close(), conn.close(), the sorted lists.
obtener_filtros_consulta(r) ==
    /\ req[r].op = "obtener_filtros"
    /\ req[r].pc = "consulta"
    /\ \E falla \in BOOLEAN :
         IF falla \/ ~ConnUsable(r)
         THEN Raises(r, IF falla THEN "consulta" ELSE "")
         ELSE \E lista_organo \in FetchAll(DistinctNotNull("codigo_organo")),
                 lista_recurso \in FetchAll(DistinctNotNull("codigo_recurso")),
                 lista_especialidad \in FetchAll(DistinctNotNull("especialidad_expe")),
                 lista_organo_detalle \in FetchAll(DistinctNotNull("organo_detalle")),
                 lista_nombre_juez \in FetchAll(DistinctNombreJuez) :
                /\ conns' = conns \ {req[r].conn}
                /\ req' = [req EXCEPT
                      ![r].pc = "done",
                      ![r].closed = TRUE,
                      ![r].resp =
                          [status |-> 200,
                           body |-> [codigo_organo |-> sorted(lista_organo),
                                     codigo_recurso |-> sorted(lista_recurso),
                                     especialidad_expe |-> sorted(lista_especialidad),
                                     organo_detalle |-> sorted(lista_organo_detalle),
                                     nombre_juez |-> sorted(lista_nombre_juez)]]]
                /\ UNCHANGED <<store, cliente>>

-----------------------------------------------------------------------------
(* GET /search *)

\* The handler's state after lines 121-158 for the query parameters a.
Busqueda(a) ==
    [Idle EXCEPT !.op = "buscar_sentencias", !.pc = "count", !.args = a,
                 !.filtros_where = filtros_where(a),
                 !.params = params(a),
                 !.from_clause = from_clause(a),
                 !.where_sql = where_sql(filtros_where(a))]

\* Lines 121-158: the connection, then the WHERE and FROM texts.
buscar_sentencias_conectar(r, as) ==
    /\ req[r].pc = "idle"
    /\ \E a \in as : Conectar(r, Busqueda(a), ClienteIdle)

\* Lines 161-167: the count query.
buscar_sentencias_count(r) ==
    /\ req[r].op = "buscar_sentencias"
    /\ req[r].pc = "count"
    /\ \E falla \in BOOLEAN :
         LET query == count_query(req[r].from_clause, req[r].where_sql)
             bound == req[r].params
         IN  IF falla \/ ~ConnUsable(r) \/ Placeholders(query) # Len(bound)
             THEN Raises(r, IF falla THEN "consulta" ELSE "")
             ELSE /\ req' = [req EXCEPT
                        ![r].pc = "page",
                        ![r].ejecutadas = Append(@, [query |-> query, params |-> bound]),
                        ![r].total_count = ExecuteCount(query, bound)]
                  /\ UNCHANGED <<store, conns, cliente>>

\* Lines 170-189: the page query, the dict, cur.close(), conn.close(), the result.
buscar_sentencias_page(r) ==
    /\ req[r].op = "buscar_sentencias"
    /\ req[r].pc = "page"
    /\ \E falla \in BOOLEAN :
         LET query == select_query(req[r].from_clause, req[r].where_sql)
             bound == params_with_pagination(req[r].params, req[r].args.limit,
                                             req[r].args.offset)
         IN  IF falla \/ ~ConnUsable(r) \/ Placeholders(query) # Len(bound)
             THEN Raises(r, IF falla THEN "consulta" ELSE "")
             ELSE LET filas == ExecuteSelect(query, bound)
                      lista_ndetalle == DictOf(filas)
                  IN  /\ conns' = conns \ {req[r].conn}
                      /\ req' = [req EXCEPT
                            ![r].pc = "done",
                            ![r].closed = TRUE,
                            ![r].ejecutadas = Append(@, [query |-> query, params |-> bound]),
                            ![r].resp =
                                [status |-> 200,
                                 body |-> [total_count |-> req[r].total_count,
                                           items |-> lista_ndetalle]]]
                      /\ UNCHANGED <<store, cliente>>

-----------------------------------------------------------------------------
(* A client paging through /search (spec.md section 8): offset 0, then       *)
(* offset + limit after every page that is not empty, merging the keys.      *)

cliente_primera_pagina(r, as) ==
    /\ req[r].pc = "idle"
    /\ \E a \in as :
          /\ a.offset = 0
          /\ a.limit >= 1
          /\ Conectar(r, Busqueda(a), [paginando |-> TRUE, merged |-> << >>])

cliente_siguiente_pagina(r) ==
    /\ req[r].op = "buscar_sentencias"
    /\ req[r].pc = "done"
    /\ req[r].resp.status = 200
    /\ cliente[r].paginando
    /\ Len(req[r].resp.body.items) > 0
    /\ Conectar(r,
                Busqueda([req[r].args EXCEPT !.offset = @ + req[r].args.limit]),
                [paginando |-> TRUE,
                 merged |-> cliente[r].merged \o Keys(req[r].resp.body.items)])

-----------------------------------------------------------------------------
(* Store contents *)

Fila(o, rc, e, d, u) ==
    [codigo_organo |-> o, codigo_recurso |-> rc, especialidad_expe |-> e,
     organo_detalle |-> d, url |-> u]

\* Attribute profiles of a decision row: every column A, or one column NULL or B.
Perfiles ==
    {<<A, A, A, A>>}
    \cup {[i \in 1..4 |-> IF i = k THEN v ELSE A] : k \in 1..4, v \in {None, B}}

\* Tables of 0..MaxRows rows with identifiers 1..n, row n drawn from filas[n].
Tablas(filas) ==
    UNION {{t \in [1..n -> UNION {filas[i] : i \in 1..n}] :
               \A i \in 1..n : t[i] \in filas[i]} : n \in 0..MaxRows}

FilasAtributos == [n \in 1..MaxRows |-> {Fila(p[1], p[2], p[3], p[4], Ruta(n)) : p \in Perfiles}]

FilasUrl == [n \in 1..MaxRows |-> {Fila(A, A, A, A, u) : u \in {None, Vacio, Ruta(n)}}]

FilasJueces == [n \in 1..MaxRows |-> {Fila(A, A, A, A, Ruta(n)), Fila(B, None, A, A, Ruta(n))}]

\* jueces with codes 1..k, k <= 2, and any name, NULL included.
TablasJueces == UNION {[1..k -> {None, A, B}] : k \in 0..2}

\* Stores whose rows vary in their attributes, with no judge.
StoresAtributos ==
    {[s |-> t, j |-> << >>, sj |-> {}] : t \in Tablas(FilasAtributos)}

\* Stores whose rows vary in their storage path.
StoresUrl ==
    {[s |-> t, j |-> << >>, sj |-> {}] : t \in Tablas(FilasUrl)}

\* Stores whose judges and associations vary; an association may name a
\* decision or a judge that does not exist.
StoresJueces ==
    {[s |-> t, j |-> tj, sj |-> a] :
        t \in Tablas(FilasJueces), tj \in TablasJueces,
        a \in SUBSET ((1..MaxRows) \X {1, 2})}

\* Rows for the search: a decision with two judges of one name; a decision with
\* no judge, another organ and no stored document; a decision with two judges
\* of different names and no appeal code.
FilasBusqueda ==
    [n \in 1..MaxRows |->
        {Fila(A, A, A, A, Ruta(n)), Fila(B, A, A, A, None), Fila(A, None, A, A, Vacio)}]

AsociacionesBusqueda(t) ==
    {<<n, c>> : n \in {i \in DOMAIN t : t[i].url = Ruta(i)}, c \in {1, 2}}
    \cup {<<n, c>> : n \in {i \in DOMAIN t : t[i].url = Vacio}, c \in {2, 3}}

StoresBusqueda ==
    {[s |-> t, j |-> <<A, A, B>>, sj |-> AsociacionesBusqueda(t)] :
        t \in Tablas(FilasBusqueda)}

StoresConcurrentes ==
    {[s |-> <<Fila(A, A, A, A, Ruta(1)), Fila(B, A, A, A, None)>>,
      j |-> <<A, A>>, sj |-> {<<1, 1>>, <<1, 2>>}]}

InitCon(stores) ==
    /\ \E st \in stores :
          /\ sentencias_y_autos = st.s
          /\ jueces = st.j
          /\ sentencias_jueces = st.sj
    /\ conns = {}
    /\ req = [r \in Requests |-> Idle]
    /\ cliente = [r \in Requests |-> ClienteIdle]

-----------------------------------------------------------------------------
(* Inputs *)

Filtro == {None, Vacio, A}

\* limit: int = 10
DEFAULT_LIMIT == 10

Limits == (0..MaxLimit) \cup {DEFAULT_LIMIT}

ArgsBusqueda ==
    {[ndetalle |-> 0, codigo_organo |-> o, codigo_recurso |-> rc,
      especialidad_expe |-> e, organo_detalle |-> d, nombre_juez |-> nj,
      limit |-> l, offset |-> f] :
        o \in Filtro, rc \in Filtro, e \in Filtro, d \in Filtro, nj \in Filtro,
        l \in Limits, f \in 0..MaxLimit}

ArgsConcurrentes ==
    {[NoArgs EXCEPT !.nombre_juez = nj, !.limit = 1] : nj \in {None, A}}

NDetalles == 1..(MaxRows + 1)

-----------------------------------------------------------------------------
(* Specifications *)

\* Concurrent requests of the three handlers.
Init == InitCon(StoresConcurrentes)

Next ==
    \E r \in Requests :
        \/ generar_url_conectar(r, {1, 2, 3})
        \/ generar_url_consulta(r)
        \/ obtener_filtros_conectar(r)
        \/ obtener_filtros_consulta(r)
        \/ buscar_sentencias_conectar(r, ArgsConcurrentes)
        \/ buscar_sentencias_count(r)
        \/ buscar_sentencias_page(r)
        \/ responder(r)

Spec == Init /\ [][Next]_vars

\* One request at a time of /descargar and /filters, over every store.
InitCatalogo == InitCon(StoresAtributos \cup StoresUrl \cup StoresJueces)

NextCatalogo ==
    \/ generar_url_conectar(1, NDetalles)
    \/ generar_url_consulta(1)
    \/ obtener_filtros_conectar(1)
    \/ obtener_filtros_consulta(1)
    \/ responder(1)

SpecCatalogo == InitCatalogo /\ [][NextCatalogo]_vars

\* One /search at a time, single or paged, over every filter combination.
InitBusqueda == InitCon(StoresBusqueda)

NextBusqueda ==
    \/ buscar_sentencias_conectar(1, ArgsBusqueda)
    \/ buscar_sentencias_count(1)
    \/ buscar_sentencias_page(1)
    \/ cliente_primera_pagina(1, ArgsBusqueda)
    \/ cliente_siguiente_pagina(1)
    \/ responder(1)

SpecBusqueda == InitBusqueda /\ [][NextBusqueda]_vars

-----------------------------------------------------------------------------
(* What spec.md says a search means, stated on the store itself *)

\* A filter is supplied when the caller gave the parameter a value.
Supplied(a, f) == a[f] # None

Direct == {"codigo_organo", "codigo_recurso", "especialidad_expe", "organo_detalle"}

\* Decision n has an associated judge called nombre.
TieneJuez(n, nombre) ==
    \E q \in sentencias_jueces :
        q[1] = n /\ q[2] \in DOMAIN jueces /\ jueces[q[2]] = nombre

\* Decision n satisfies every supplied predicate of a.
Satisface(n, a) ==
    /\ \A f \in Direct : Supplied(a, f) => sentencias_y_autos[n][f] = a[f]
    /\ Supplied(a, "nombre_juez") => TieneJuez(n, a.nombre_juez)

Coinciden(a) == {n \in DOMAIN sentencias_y_autos : Satisface(n, a)}

\* The identifiers of S in ascending order.
Ascendente(S) ==
    CHOOSE f \in [1..Cardinality(S) -> S] :
        \A i, j \in 1..Cardinality(S) : i < j => f[i] < f[j]

\* No supplied filter is the empty string.
SinVacios(a) == \A f \in Direct \cup {"nombre_juez"} : a[f] # Vacio

Respondida(r) ==
    req[r].op = "buscar_sentencias" /\ req[r].pc = "done" /\ req[r].resp.status = 200

-----------------------------------------------------------------------------
(* C1 *)

\* C1: total_count of every answered search is the number of distinct decisions
\* that satisfy all supplied filters, whatever limit and offset are; a decision
\* with several judges counts once.
C1_TotalCount ==
    \A r \in Requests :
        Respondida(r) =>
            req[r].resp.body.total_count = Cardinality(Coinciden(req[r].args))

\* C1 for the searches whose supplied values are all non-empty.
C1_TotalCount_SinVacios ==
    \A r \in Requests :
        Respondida(r) /\ SinVacios(req[r].args) =>
            req[r].resp.body.total_count = Cardinality(Coinciden(req[r].args))

-----------------------------------------------------------------------------
(* C2 *)

PaginasAgotadas(r) ==
    Respondida(r) /\ cliente[r].paginando /\ Len(req[r].resp.body.items) = 0

SinFiltros(a) == \A f \in Direct \cup {"nombre_juez"} : a[f] = None

\* C2: once paging at offsets 0, limit, 2*limit, ... meets an empty page, the
\* merged pages are exactly the decisions that satisfy the filters, ascending,
\* none twice, none skipped, total_count of them; and the first page of a search
\* with no filter holds the smallest identifiers of the table, total_count being
\* the table's size.
C2_Paginacion ==
    \A r \in Requests :
        /\ PaginasAgotadas(r) =>
              /\ cliente[r].merged = Ascendente(Coinciden(req[r].args))
              /\ Len(cliente[r].merged) = req[r].resp.body.total_count
        /\ Respondida(r) /\ SinFiltros(req[r].args) /\ req[r].args.offset = 0 =>
              /\ Keys(req[r].resp.body.items) =
                    SubSeq(Ascendente(DOMAIN sentencias_y_autos), 1,
                           Min(req[r].args.limit, Cardinality(DOMAIN sentencias_y_autos)))
              /\ req[r].resp.body.total_count = Cardinality(DOMAIN sentencias_y_autos)

\* C2 for the searches whose supplied values are all non-empty.
C2_Paginacion_SinVacios ==
    \A r \in Requests :
        /\ PaginasAgotadas(r) /\ SinVacios(req[r].args) =>
              /\ cliente[r].merged = Ascendente(Coinciden(req[r].args))
              /\ Len(cliente[r].merged) = req[r].resp.body.total_count
        /\ Respondida(r) /\ SinFiltros(req[r].args) /\ req[r].args.offset = 0 =>
              /\ Keys(req[r].resp.body.items) =
                    SubSeq(Ascendente(DOMAIN sentencias_y_autos), 1,
                           Min(req[r].args.limit, Cardinality(DOMAIN sentencias_y_autos)))
              /\ req[r].resp.body.total_count = Cardinality(DOMAIN sentencias_y_autos)

-----------------------------------------------------------------------------
(* C3 *)

\* C3: no request that has ended, by a return, a 404 or an error, still holds
\* an open store connection.
C3_ConexionLiberada ==
    \A r \in Requests :
        req[r].pc = "done" /\ req[r].conn # 0 => req[r].closed

\* C3 for the requests in which no store query raised.
C3_ConexionLiberada_SinFalloDeConsulta ==
    \A r \in Requests :
        req[r].pc = "done" /\ req[r].conn # 0 /\ req[r].fallo # "consulta" =>
            req[r].closed

-----------------------------------------------------------------------------
(* C4 *)

TieneDocumento(nd) ==
    nd \in DOMAIN sentencias_y_autos /\ sentencias_y_autos[nd].url # None

\* C4: a finished generar_url answers 404 exactly when the store answered and
\* no record has the identifier or the record's storage path is NULL; when the
\* store answered, a record with a path gets, unless the signing call fails,
\* status 200 and a payload holding only the URL signed for that path with
\* method GET, 15 minutes and version v4; the only other outcome is the server
\* error of a failed store or signing call.
C4_NotFound ==
    \A r \in Requests :
        req[r].op = "generar_url" /\ req[r].pc = "done" =>
            LET nd == req[r].args.ndetalle
                resp == req[r].resp
            IN  /\ resp.status \in {200, 404, 500}
                /\ resp.status = 404 <=>
                      (req[r].fallo = "" /\ ~TieneDocumento(nd))
                /\ resp.status = 200 <=>
                      (req[r].fallo = "" /\ TieneDocumento(nd))
                /\ resp.status = 200 =>
                      /\ DOMAIN resp.body = {"url"}
                      /\ resp.body.url =
                            [bucket |-> "automatizacion-casillero",
                             blob |-> sentencias_y_autos[nd].url,
                             version |-> "v4", expiration |-> 15, method |-> "GET"]

\* A record exists but its storage path is NULL, and the answer is 404.
C4_Witness ==
    \E r \in Requests :
        /\ req[r].op = "generar_url" /\ req[r].pc = "done"
        /\ req[r].args.ndetalle \in DOMAIN sentencias_y_autos
        /\ sentencias_y_autos[req[r].args.ndetalle].url = None
        /\ req[r].resp.status = 404

-----------------------------------------------------------------------------
(* C5 *)

Construida(r) ==
    req[r].op = "buscar_sentencias" /\ req[r].pc \in {"count", "page", "done"}

\* Decision n satisfies the supplied predicates on its own columns.
SatisfaceDirectos(n, a) ==
    \A f \in Direct : Supplied(a, f) => sentencias_y_autos[n][f] = a[f]

\* C5: without a judge-name value the join chain is the LEFT JOIN and the count
\* covers every decision satisfying the other filters, judge or no judge; with
\* a judge-name value, the empty string included, the chain is the inner JOIN
\* with the judge-name equality in the WHERE clause and the count covers exactly
\* the decisions having a judge of that name.
C5_JoinCondicional ==
    \A r \in Requests :
        /\ Construida(r) /\ ~Supplied(req[r].args, "nombre_juez") =>
              req[r].from_clause = <<FROM_BASE, JOIN_LEFT>>
        /\ Construida(r) /\ Supplied(req[r].args, "nombre_juez") =>
              /\ req[r].from_clause = <<FROM_BASE, JOIN_INNER>>
              /\ \E i \in 1..Len(req[r].filtros_where) :
                     /\ req[r].filtros_where[i] = "j.nombre_juez = %s"
                     /\ req[r].params[i] = req[r].args.nombre_juez
        /\ Respondida(r) =>
              req[r].resp.body.total_count =
                  Cardinality({n \in DOMAIN sentencias_y_autos :
                      /\ SatisfaceDirectos(n, [req[r].args EXCEPT !.nombre_juez = None])
                      /\ Supplied(req[r].args, "nombre_juez") =>
                             TieneJuez(n, req[r].args.nombre_juez)})

\* C5 for the searches whose supplied values are all non-empty.
C5_JoinCondicional_SinVacios ==
    \A r \in Requests :
        SinVacios(req[r].args) =>
            /\ Construida(r) /\ ~Supplied(req[r].args, "nombre_juez") =>
                  req[r].from_clause = <<FROM_BASE, JOIN_LEFT>>
            /\ Construida(r) /\ Supplied(req[r].args, "nombre_juez") =>
                  /\ req[r].from_clause = <<FROM_BASE, JOIN_INNER>>
                  /\ \E i \in 1..Len(req[r].filtros_where) :
                         /\ req[r].filtros_where[i] = "j.nombre_juez = %s"
                         /\ req[r].params[i] = req[r].args.nombre_juez
            /\ Respondida(r) =>
                  req[r].resp.body.total_count = Cardinality(Coinciden(req[r].args))

-----------------------------------------------------------------------------
(* C6 *)

\* The value supplied for filter f equals no record's attribute (no judge's
\* name, for nombre_juez).
SinCoincidencia(a, f) ==
    /\ Supplied(a, f)
    /\ IF f = "nombre_juez"
       THEN \A c \in DOMAIN jueces : jueces[c] # a[f]
       ELSE \A n \in DOMAIN sentencias_y_autos : sentencias_y_autos[n][f] # a[f]

\* C6: a search with a supplied value that matches nothing is answered, with
\* total_count 0 and no item.
C6_SinResultados ==
    \A r \in Requests :
        /\ Respondida(r)
        /\ \E f \in Direct \cup {"nombre_juez"} : SinCoincidencia(req[r].args, f)
        => /\ req[r].resp.body.total_count = 0
           /\ req[r].resp.body.items = << >>

\* C6 for the searches whose supplied values are all non-empty.
C6_SinResultados_SinVacios ==
    \A r \in Requests :
        /\ Respondida(r)
        /\ SinVacios(req[r].args)
        /\ \E f \in Direct \cup {"nombre_juez"} : SinCoincidencia(req[r].args, f)
        => /\ req[r].resp.body.total_count = 0
           /\ req[r].resp.body.items = << >>

-----------------------------------------------------------------------------
(* C7 *)

\* l is strictly ascending: sorted, and no entry twice.
EstrictamenteAscendente(l) ==
    \A i, j \in 1..Len(l) : i < j => TextLess(l[i], l[j])

Elementos(l) == {l[i] : i \in 1..Len(l)}

\* The judges linked by an association to a decision that exists.
JuecesVinculados ==
    {c \in DOMAIN jueces :
        \E n \in DOMAIN sentencias_y_autos : <<n, c>> \in sentencias_jueces}

\* C7: each list of an answered obtener_filtros is ascending with no NULL and
\* no duplicate; each attribute's list holds exactly the non-NULL values of the
\* attribute over the decision records, the judge list exactly the non-NULL
\* names of the judges linked to an existing decision.
C7_Filtros ==
    \A r \in Requests :
        req[r].op = "obtener_filtros" /\ req[r].pc = "done" /\ req[r].resp.status = 200 =>
            LET body == req[r].resp.body
            IN  /\ DOMAIN body = Direct \cup {"nombre_juez"}
                /\ \A f \in DOMAIN body :
                      /\ EstrictamenteAscendente(body[f])
                      /\ None \notin Elementos(body[f])
                /\ \A f \in Direct :
                      Elementos(body[f]) =
                          {v \in {sentencias_y_autos[n][f] : n \in DOMAIN sentencias_y_autos} :
                              v # None}
                /\ Elementos(body.nombre_juez) =
                      {v \in {jueces[c] : c \in JuecesVinculados} : v # None}

\* Two organ codes to sort, a judge listed, and a named judge left out because
\* no association links them to a decision.
C7_Witness ==
    \E r \in Requests :
        /\ req[r].op = "obtener_filtros" /\ req[r].pc = "done"
        /\ req[r].resp.status = 200
        /\ req[r].resp.body.codigo_organo = <<A, B>>
        /\ req[r].resp.body.nombre_juez = <<A>>
        /\ \E c \in DOMAIN jueces :
              /\ jueces[c] = B
              /\ c \notin JuecesVinculados

-----------------------------------------------------------------------------
(* C8 *)

\* What the handler answers to the request alone on the store, when neither
\* the store nor the signing call fails.
RespuestaSola(op, a) ==
    CASE op = "generar_url" ->
            IF TieneDocumento(a.ndetalle)
            THEN [status |-> 200,
                  body |-> [url |-> generate_signed_url(sentencias_y_autos[a.ndetalle].url)]]
            ELSE [status |-> 404, body |-> [detail |-> "Archivo no encontrado"]]
      [] op = "obtener_filtros" ->
            [status |-> 200,
             body |-> [f \in Direct \cup {"nombre_juez"} |->
                         sorted(CHOOSE l \in FetchAll(
                                    IF f = "nombre_juez" THEN DistinctNombreJuez
                                    ELSE DistinctNotNull(f)) : TRUE)]]
      [] op = "buscar_sentencias" ->
            LET from == from_clause(a)
                where == where_sql(filtros_where(a))
            IN  [status |-> 200,
                 body |-> [total_count |-> ExecuteCount(count_query(from, where), params(a)),
                           items |-> DictOf(ExecuteSelect(
                               select_query(from, where),
                               params_with_pagination(params(a), a.limit, a.offset)))]]

\* C8: whatever the interleaving of concurrent requests, no step changes the
\* three tables, a step of one request leaves the state of every other request
\* as it was, and a request that no store or signing failure hit is answered
\* as it would be alone.
C8_Independencia ==
    /\ [](\A r \in Requests :
            req[r].pc = "done" /\ req[r].fallo = "" =>
                req[r].resp = RespuestaSola(req[r].op, req[r].args))
    /\ [][/\ store' = store
          /\ \A r, q \in Requests :
                r # q /\ req'[r] # req[r] => req'[q] = req[q]]_vars

\* A search is answered while a download of another slot is between its
\* connection and its query.
C8_Witness ==
    \E r, q \in Requests :
        /\ r # q
        /\ Respondida(r)
        /\ req[r].resp.body.total_count > 0
        /\ req[q].op = "generar_url"
        /\ req[q].pc = "consulta"

-----------------------------------------------------------------------------
(* C9 *)

\* The position of a filter in the handler's order.
Orden(f) ==
    CASE f = "codigo_organo" -> 1
      [] f = "codigo_recurso" -> 2
      [] f = "especialidad_expe" -> 3
      [] f = "organo_detalle" -> 4
      [] f = "nombre_juez" -> 5

\* C9: the WHERE clause has one placeholder per collected parameter, the i-th
\* parameter is the value of the filter the i-th condition names, the
\* conditions follow the order organ, appeal, specialty, detail, judge, no
\* WHERE is emitted without a condition, the count and the page query are sent
\* with the same FROM/JOIN/WHERE text, and the page query binds the collected
\* parameters, then limit, then offset.
C9_Alineacion ==
    \A r \in Requests :
        Construida(r) =>
            LET fw == req[r].filtros_where
                ps == req[r].params
                ex == req[r].ejecutadas
            IN  /\ Len(WhereConds(req[r].where_sql)) = Len(ps)
                /\ WhereConds(req[r].where_sql) = fw
                /\ \A i \in 1..Len(fw) : ps[i] = req[r].args[CondColumn(fw[i])]
                /\ \A i, j \in 1..Len(fw) :
                      i < j => Orden(CondColumn(fw[i])) < Orden(CondColumn(fw[j]))
                /\ Len(fw) = 0 => req[r].where_sql = << >>
                /\ Len(fw) > 0 => Head(req[r].where_sql) = "WHERE "
                /\ req[r].pc = "done" /\ req[r].resp.status = 200 =>
                      /\ Len(ex) = 2
                      /\ ex[1].query.from = ex[2].query.from
                      /\ ex[1].query.where = ex[2].query.where
                      /\ ex[1].query.where = req[r].where_sql
                      /\ ex[1].params = ps
                      /\ ex[2].params = ps \o <<req[r].args.limit, req[r].args.offset>>

\* An answered search with an empty value beside two values that became
\* conditions.
C9_Witness ==
    \E r \in Requests :
        /\ Respondida(r)
        /\ req[r].args.codigo_recurso = Vacio
        /\ req[r].filtros_where = <<"s.codigo_organo = %s", "j.nombre_juez = %s">>

-----------------------------------------------------------------------------
(* C10 *)

\* C10: an answered search has at most limit and at most total_count items,
\* each key a decision that satisfies every supplied filter, each value the
\* storage path of that decision, NULL included.
C10_Items ==
    \A r \in Requests :
        Respondida(r) =>
            LET items == req[r].resp.body.items
            IN  /\ Len(items) <= req[r].args.limit
                /\ Len(items) <= req[r].resp.body.total_count
                /\ \A i \in 1..Len(items) :
                      /\ items[i][1] \in Coinciden(req[r].args)
                      /\ items[i][2] = sentencias_y_autos[items[i][1]].url

\* C10 for the searches whose supplied values are all non-empty.
C10_Items_SinVacios ==
    \A r \in Requests :
        Respondida(r) /\ SinVacios(req[r].args) =>
            LET items == req[r].resp.body.items
            IN  /\ Len(items) <= req[r].args.limit
                /\ Len(items) <= req[r].resp.body.total_count
                /\ \A i \in 1..Len(items) :
                      /\ items[i][1] \in Coinciden(req[r].args)
                      /\ items[i][2] = sentencias_y_autos[items[i][1]].url

\* A search returns a decision whose storage path is NULL, for which
\* generar_url answers 404.
C10_NullEnItems ==
    \E r \in Requests :
        /\ Respondida(r)
        /\ \E i \in 1..Len(req[r].resp.body.items) :
              /\ req[r].resp.body.items[i][2] = None
              /\ ~TieneDocumento(req[r].resp.body.items[i][1])

=============================================================================
